---- MODULE Spec2Model ----
(***************************************************************************)
(* Router generation of `forge generate router`.                           *)
(*                                                                         *)
(*   Spec      build_router (router.rs): collect the modules' functions,   *)
(*             merge the ABI, build the selector tree, render the module   *)
(*             table and the dispatch code, assemble the router text.      *)
(*   SpecRun   GenerateRouterArgs::run (mod.rs) with the helpers of        *)
(*             utils.rs: collect and sort, build, render, write.           *)
(*   SpecTree  build_binary_data and render_node applied to entry          *)
(*             sequences of every length up to MaxLen.                     *)
(*                                                                         *)
(* Strings are sequences of character codes, so that string comparison,    *)
(* hex encoding and case conversion are computed and not assumed.          *)
(***************************************************************************)
EXTENDS Integers, Sequences, FiniteSets, TLC

VARIABLES module_names, pc, idx, functions, combined_abi, selectors,
          interface, router_tree, module_lookup, rendered, result

vars == <<module_names, pc, idx, functions, combined_abi, selectors,
          interface, router_tree, module_lookup, rendered, result>>

(***************************************************************************)
(* Bounds of the model.                                                    *)
(***************************************************************************)
\* longest module list handed to the generator
MaxModules == 2
\* number of functions of the larger contracts of the project
MaxFuns == 5
\* longest entry sequence handed to the tree builder in SpecTree
MaxLen == 40
\* render passes made over one tree in SpecTree
MaxPasses == 2

(***************************************************************************)
(* Program constants.                                                      *)
(***************************************************************************)
MAX_SELECTORS_PER_SWITCH_STATEMENT == 9
\* a selector is 4 bytes
SelectorBytes == 4
\* render_selectors starts render_node at indent 4
BaseIndent == 4

(***************************************************************************)
(* Strings.                                                                *)
(***************************************************************************)
IsUppercase(c) == c >= 65 /\ c <= 90
IsLowercase(c) == c >= 97 /\ c <= 122
ToUppercaseChar(c) == IF IsLowercase(c) THEN c - 32 ELSE c

\* String::cmp: byte-wise lexicographic order.
RECURSIVE StrLess(_, _)
StrLess(a, b) ==
    IF b = <<>> THEN FALSE
    ELSE IF a = <<>> THEN TRUE
    ELSE IF Head(a) # Head(b) THEN Head(a) < Head(b)
    ELSE StrLess(Tail(a), Tail(b))

\* one lower-case hexadecimal digit, as the hex crate writes it
HexDigit(d) == IF d < 10 THEN 48 + d ELSE 87 + d

RECURSIVE HexOf(_, _)
HexOf(v, digits) ==
    IF digits = 0 THEN <<>>
    ELSE Append(HexOf(v \div 16, digits - 1), HexDigit(v % 16))

\* ToHexExt::encode_hex on a 4-byte selector: two digits per byte
encode_hex(v) == HexOf(v, 2 * SelectorBytes)

\* ToHexExt::encode_hex_with_prefix: "0x" and the digits
encode_hex_with_prefix(v) == <<48, 120>> \o encode_hex(v)

RECURSIVE ConstantCaseFrom(_, _, _)
ConstantCaseFrom(name, k, prev_is_uppercase) ==
    IF k > Len(name) THEN <<>>
    ELSE LET c == name[k] IN
         IF IsUppercase(c)
         THEN (IF ~prev_is_uppercase THEN <<95, c>> ELSE <<c>>)
              \o ConstantCaseFrom(name, k + 1, TRUE)
         ELSE <<c>> \o ConstantCaseFrom(name, k + 1, FALSE)

\* to_constant_case: an underscore before every run of upper-case
\* letters, then everything in upper case.
to_constant_case(name) ==
    LET r == ConstantCaseFrom(name, 1, FALSE)
    IN  [k \in 1..Len(r) |-> ToUppercaseChar(r[k])]

(***************************************************************************)
(* The compiled project: what the artifact cache holds.  A module          *)
(* identifier names one contract of the project by path and name.          *)
(* Contracts of Groups 1 and 3 have the same contract name in different    *)
(* files, and the contract of group 4 has a name with the constant-case    *)
(* form of theirs; a contract's functions are listed in the iteration      *)
(* order of abi.functions (by name, overloads of a name together).         *)
(***************************************************************************)
Groups == 1..3
Shapes == {"asc", "desc", "overload"}
Specials == {"none", "fallback", "receive", "both"}

OkArtifacts == [group : Groups, shape : Shapes, special : Specials, status : {"ok"}]
BadArtifacts == [group : {1}, shape : {"asc"}, special : {"none"},
                 status : {"notfound", "nobytecode", "noabi"}]
UnderscoreArtifacts == [group : {4}, shape : {"asc"}, special : {"none"},
                        status : {"ok"}]
Project == OkArtifacts \cup BadArtifacts \cup UnderscoreArtifacts

\* "ModA", "ModB", "_modA", and "Gone" for an identifier the cache does
\* not hold
ContractName(a) ==
    IF a.status = "notfound" THEN <<71, 111, 110, 101>>
    ELSE IF a.group = 2 THEN <<77, 111, 100, 66>>
    ELSE IF a.group = 4 THEN <<95, 109, 111, 100, 65>>
    ELSE <<77, 111, 100, 65>>

ShapeIndex(s) == CASE s = "asc" -> 0 [] s = "desc" -> 1 [] OTHER -> 2
SpecialIndex(s) == CASE s = "none" -> 0 [] s = "fallback" -> 1
                     [] s = "receive" -> 2 [] OTHER -> 3

\* the deployed bytecode of a contract, one value per contract
Bytecode(a) == 1 + SpecialIndex(a.special) + 4 * ShapeIndex(a.shape) + 12 * (a.group - 1)

\* Address::create2_from_code for the run's deployer and salt: a hash of
\* the bytecode, distinct for distinct bytecode
create2_from_code(bytecode) == [create2 |-> bytecode]

GroupSize(g) == IF g >= 3 THEN 2 ELSE MaxFuns
\* contracts of groups 1 and 4 share no selector with the others; those
\* of group 3 repeat selectors of group 2
GroupBase(g) == IF g = 1 THEN 0 ELSE IF g = 4 THEN 32 ELSE 16

\* "f1", "f2", ...
FnName(k) == <<102, 48 + k>>

\* Function: its name and the 4 bytes Function::selector() returns
AbiFunctions(a) ==
    LET n == GroupSize(a.group)
        base == GroupBase(a.group)
    IN  [j \in 1..n |->
           CASE a.shape = "asc" -> [name |-> FnName(j), selector |-> base + j]
             [] a.shape = "desc" -> [name |-> FnName(j), selector |-> base + n + 1 - j]
             [] OTHER -> [name |-> FnName((j + 1) \div 2), selector |-> base + j]]

None == <<>>
Some(x) == <<x>>
is_some(o) == o # <<>>

AbiFallback(a) ==
    IF a.special \in {"fallback", "both"}
    THEN Some([state_mutability |-> IF a.group = 2 THEN "nonpayable" ELSE "payable"])
    ELSE None

AbiReceive(a) ==
    IF a.special \in {"receive", "both"}
    THEN Some([state_mutability |-> "payable"])
    ELSE None

(***************************************************************************)
(* build_router: the selector collector.                                   *)
(***************************************************************************)
NoError == [msg |-> "", args |-> <<>>]
Err(msg, args) == [msg |-> msg, args |-> args]

EmptyMap == [k \in {} |-> <<>>]

JsonAbiNew == [functions |-> EmptyMap, fallback |-> None, receive |-> None]

NoTree == [selectors |-> <<>>, children |-> <<>>]

Pending == [status |-> "pending", content |-> <<>>, error |-> NoError]
Failed(e) == [status |-> "err", content |-> <<>>, error |-> e]

RouterTemplateInputs(address, contract_name, function_name, selector) ==
    [address |-> address, contract_name |-> contract_name,
     function_name |-> function_name, selector |-> selector]

\* combined_abi.functions.get_mut(name) / push, or insert of a new vector
PushFunction(m, f) ==
    IF f.name \in DOMAIN m
    THEN [m EXCEPT ![f.name] = Append(@, f)]
    ELSE (f.name :> <<f>>) @@ m

\* the loop over one module's functions, from the k-th function on;
\* acc holds functions, combined_abi.functions, selectors and the error
RECURSIVE CollectFunctions(_, _, _, _, _)
CollectFunctions(fs, k, acc, address, module_name) ==
    IF k > Len(fs) THEN acc
    ELSE LET function == fs[k]
             selector == encode_hex_with_prefix(function.selector)
         IN  IF selector \in DOMAIN acc.functions
             THEN [acc EXCEPT !.error = Err("Duplicate selector found", <<>>)]
             ELSE CollectFunctions(fs, k + 1,
                    [functions |-> (selector :> function) @@ acc.functions,
                     abi_functions |-> PushFunction(acc.abi_functions, function),
                     selectors |-> Append(acc.selectors,
                         RouterTemplateInputs(address, module_name,
                                              function.name, selector)),
                     error |-> NoError],
                    address, module_name)

\* the fallback and receive checks that close a module's iteration
MergeFallback(abi, a) ==
    IF is_some(AbiFallback(a))
    THEN IF is_some(abi.fallback)
         THEN [abi |-> abi, error |-> Err("Multiple fallback functions found", <<>>)]
         ELSE [abi |-> [abi EXCEPT !.fallback = AbiFallback(a)], error |-> NoError]
    ELSE [abi |-> abi, error |-> NoError]

MergeReceive_overwrite(abi, a) ==
    IF is_some(AbiReceive(a))
    THEN [abi |-> [abi EXCEPT !.receive = AbiReceive(a)], error |-> NoError]
    ELSE [abi |-> abi, error |-> NoError]

MergeReceive(abi, a) ==
    IF is_some(AbiReceive(a))
    THEN IF is_some(abi.receive)
         THEN [abi |-> abi, error |-> Err("Multiple receive functions found", <<>>)]
         ELSE [abi |-> [abi EXCEPT !.receive = AbiReceive(a)], error |-> NoError]
    ELSE [abi |-> abi, error |-> NoError]

\* the keys of a BTreeMap<String, _> in iteration order
RECURSIVE SortedKeys(_)
SortedKeys(S) ==
    IF S = {} THEN <<>>
    ELSE LET m == CHOOSE x \in S : \A y \in S \ {x} : StrLess(x, y)
         IN  <<m>> \o SortedKeys(S \ {m})

\* for (_, function) in functions.iter():
\*     combined_abi.functions.insert(function.name, vec![function])
RECURSIVE InsertAll(_, _, _, _)
InsertAll(keys, k, fns, m) ==
    IF k > Len(keys) THEN m
    ELSE LET function == fns[keys[k]]
         IN  InsertAll(keys, k + 1, fns,
                       (function.name :> <<function>>) @@ m)

RECURSIVE FlattenMap(_, _, _)
FlattenMap(names, k, m) ==
    IF k > Len(names) THEN <<>>
    ELSE m[names[k]] \o FlattenMap(names, k + 1, m)

\* JsonAbi::to_sol: the interface items, by name
to_sol(abi) ==
    [functions |-> FlattenMap(SortedKeys(DOMAIN abi.functions), 1, abi.functions),
     fallback |-> abi.fallback, receive |-> abi.receive]

(***************************************************************************)
(* build_binary_data: the dispatch tree.                                   *)
(***************************************************************************)
BinaryData(sels, children) == [selectors |-> sels, children |-> children]

mid_idx_off_by_one(len) == (len \div 2) + 1

mid_idx(len) == (len + 1) \div 2

\* binary_split without the recursive call on child_b
RECURSIVE binary_split_left_only(_)
binary_split_left_only(node) ==
    IF Len(node.selectors) > MAX_SELECTORS_PER_SWITCH_STATEMENT
    THEN LET mid == mid_idx(Len(node.selectors))
             child_a == BinaryData(SubSeq(node.selectors, 1, mid), <<>>)
             child_b == BinaryData(SubSeq(node.selectors, mid + 1,
                                          Len(node.selectors)), <<>>)
         IN  BinaryData(<<>>, node.children
                              \o <<binary_split_left_only(child_a), child_b>>)
    ELSE node

RECURSIVE binary_split(_)
binary_split(node) ==
    IF Len(node.selectors) > MAX_SELECTORS_PER_SWITCH_STATEMENT
    THEN LET mid == mid_idx(Len(node.selectors))
             child_a == BinaryData(SubSeq(node.selectors, 1, mid), <<>>)
             child_b == BinaryData(SubSeq(node.selectors, mid + 1,
                                          Len(node.selectors)), <<>>)
         IN  BinaryData(<<>>, node.children
                              \o <<binary_split(child_a), binary_split(child_b)>>)
    ELSE node

build_binary_data(sels) == binary_split(BinaryData(sels, <<>>))

(***************************************************************************)
(* render_selectors and render_modules of router.rs.  A text is the        *)
(* sequence of its lines; a line is its indent (the number of "    "       *)
(* units in front) and what follows it.                                    *)
(***************************************************************************)
Line(kind, indent, selector, constant, contract_name, function_name) ==
    [kind |-> kind, indent |-> indent, selector |-> selector,
     constant |-> constant, contract_name |-> contract_name,
     function_name |-> function_name]

\* "{}if lt(sig, {}) {{"
GuardLine(indent, selector) == Line("if", indent, selector, <<>>, <<>>, <<>>)
\* "{}}}"
CloseLine(indent) == Line("close", indent, <<>>, <<>>, <<>>, <<>>)
\* "{}switch sig"
SwitchLine(indent) == Line("switch", indent, <<>>, <<>>, <<>>, <<>>)
\* "{}case {} {{ result := {} }} // {}.{}()"
CaseLine(indent, s) ==
    Line("case", indent, s.selector, to_constant_case(s.contract_name),
         s.contract_name, s.function_name)
\* "{}leave"
LeaveLine(indent) == Line("leave", indent, <<>>, <<>>, <<>>, <<>>)

RECURSIVE find_mid_selector(_)
find_mid_selector(node) ==
    IF node.selectors # <<>> THEN node.selectors[1]
    ELSE find_mid_selector(node.children[1])

\* render_node that reads the children without removing them
RECURSIVE render_node_keeping(_, _)
render_node_keeping(node, indent) ==
    IF node.children # <<>>
    THEN LET child_a == node.children[1]
             child_b == node.children[2]
             mid_selector == find_mid_selector(child_b)
         IN  [lines |-> <<GuardLine(indent, mid_selector.selector)>>
                        \o render_node_keeping(child_a, indent + 1).lines
                        \o <<CloseLine(indent)>>
                        \o render_node_keeping(child_b, indent + 2).lines,
              node |-> node]
    ELSE [lines |-> <<SwitchLine(indent)>>
                    \o [k \in 1..Len(node.selectors) |->
                          CaseLine(indent + 1, node.selectors[k])]
                    \o <<LeaveLine(indent)>>,
          node |-> node]

\* render_node reads the node through a mutable reference: it returns the
\* lines it pushed and the node as the call leaves it (both children are
\* removed from an internal node and dropped with the call).
RECURSIVE render_node(_, _)
render_node(node, indent) ==
    IF node.children # <<>>
    THEN LET child_a == node.children[1]
             child_b == node.children[2]
             mid_selector == find_mid_selector(child_b)
         IN  [lines |-> <<GuardLine(indent, mid_selector.selector)>>
                        \o render_node(child_a, indent + 1).lines
                        \o <<CloseLine(indent)>>
                        \o render_node(child_b, indent + 2).lines,
              node |-> [node EXCEPT !.children = Tail(Tail(node.children))]]
    ELSE [lines |-> <<SwitchLine(indent)>>
                    \o [k \in 1..Len(node.selectors) |->
                          CaseLine(indent + 1, node.selectors[k])]
                    \o <<LeaveLine(indent)>>,
          node |-> node]

render_selectors(binary_data) == render_node(binary_data, BaseIndent).lines

\* itertools unique_by: the first element of every key, in order
RECURSIVE unique_by_contract_name(_, _, _)
unique_by_contract_name(modules, k, seen) ==
    IF k > Len(modules) THEN <<>>
    ELSE IF modules[k].contract_name \in seen
         THEN unique_by_contract_name(modules, k + 1, seen)
         ELSE <<modules[k]>>
              \o unique_by_contract_name(modules, k + 1,
                                         seen \cup {modules[k].contract_name})

\* "address constant {} = {};"
ModuleLine(name, address) == [constant |-> name, address |-> address]

render_modules(modules) ==
    LET unique == unique_by_contract_name(modules, 1, {})
    IN  [k \in 1..Len(unique) |->
           ModuleLine(to_constant_case(unique[k].contract_name), unique[k].address)]

(***************************************************************************)
(* build_router, step by step.                                             *)
(***************************************************************************)
Modules == UNION {[1..n -> Project] : n \in 0..MaxModules}

Start(p) ==
    /\ pc = p
    /\ idx = 1
    /\ functions = EmptyMap
    /\ combined_abi = JsonAbiNew
    /\ selectors = <<>>
    /\ interface = to_sol(JsonAbiNew)
    /\ router_tree = NoTree
    /\ module_lookup = <<>>
    /\ rendered = <<>>
    /\ result = Pending

Init ==
    /\ module_names \in Modules
    /\ Start("collect")

Fail(e) ==
    /\ result' = Failed(e)
    /\ pc' = "done"
    /\ UNCHANGED <<module_names, idx, functions, combined_abi, selectors,
                   interface, router_tree, module_lookup, rendered>>

\* one iteration of `for module_name in module_names.iter()`
LoadModule ==
    /\ pc = "collect"
    /\ idx <= Len(module_names)
    /\ LET a == module_names[idx]
           module_name == ContractName(a)
           address == create2_from_code(Bytecode(a))
           acc == CollectFunctions(AbiFunctions(a), 1,
                      [functions |-> functions,
                       abi_functions |-> combined_abi.functions,
                       selectors |-> selectors, error |-> NoError],
                      address, module_name)
           abi0 == [combined_abi EXCEPT !.functions = acc.abi_functions]
           fb == MergeFallback(abi0, a)
           rc == MergeReceive(fb.abi, a)
       IN  IF a.status = "notfound"
           THEN Fail(Err("No cached artifact found for contract", <<module_name>>))
           ELSE IF a.status = "nobytecode"
           THEN Fail(Err("No bytecode found for contract", <<module_name>>))
           ELSE IF a.status = "noabi"
           THEN Fail(Err("No ABI found for contract", <<module_name>>))
           ELSE IF acc.error # NoError THEN Fail(acc.error)
           ELSE IF fb.error # NoError THEN Fail(fb.error)
           ELSE IF rc.error # NoError THEN Fail(rc.error)
           ELSE /\ functions' = acc.functions
                /\ selectors' = acc.selectors
                /\ combined_abi' = rc.abi
                /\ idx' = idx + 1
                /\ UNCHANGED <<module_names, pc, interface, router_tree,
                               module_lookup, rendered, result>>

\* the merge of `functions` into combined_abi and the interface
MergeAbi ==
    /\ pc = "collect"
    /\ idx > Len(module_names)
    /\ combined_abi' = [combined_abi EXCEPT !.functions =
           InsertAll(SortedKeys(DOMAIN functions), 1, functions, @)]
    /\ interface' = to_sol(combined_abi')
    /\ pc' = "build"
    /\ UNCHANGED <<module_names, idx, functions, selectors, router_tree,
                   module_lookup, rendered, result>>

BuildTree ==
    /\ pc = "build"
    /\ router_tree' = build_binary_data(selectors)
    /\ pc' = "modules"
    /\ UNCHANGED <<module_names, idx, functions, combined_abi, selectors,
                   interface, module_lookup, rendered, result>>

RenderModules ==
    /\ pc = "modules"
    /\ module_lookup' = render_modules(selectors)
    /\ pc' = "render"
    /\ UNCHANGED <<module_names, idx, functions, combined_abi, selectors,
                   interface, router_tree, rendered, result>>

\* render_selectors takes the tree by value: the tree is gone afterwards
RenderSelectors ==
    /\ pc = "render"
    /\ rendered' = Append(rendered, render_selectors(router_tree))
    /\ router_tree' = NoTree
    /\ pc' = "assemble"
    /\ UNCHANGED <<module_names, idx, functions, combined_abi, selectors,
                   interface, module_lookup, result>>

\* the four placeholders of RouterTemplate.t.sol, and Ok(router_content)
Assemble ==
    /\ pc = "assemble"
    /\ result' = [status |-> "ok",
                  content |-> <<[selectors |-> rendered[Len(rendered)],
                                 interface |-> interface,
                                 modules |-> module_lookup]>>,
                  error |-> NoError]
    /\ pc' = "done"
    /\ UNCHANGED <<module_names, idx, functions, combined_abi, selectors,
                   interface, router_tree, module_lookup, rendered>>

Next ==
    \/ LoadModule
    \/ MergeAbi
    \/ BuildTree
    \/ RenderModules
    \/ RenderSelectors
    \/ Assemble

Spec == Init /\ [][Next]_vars

(***************************************************************************)
(* GenerateRouterArgs::run (mod.rs) with the helpers of utils.rs.          *)
(***************************************************************************)
FunctionSelector(address, contract_name, name, selector) ==
    [address |-> address, contract_name |-> contract_name,
     function_name |-> name, selector |-> selector]

\* the closure of flat_map for one identifier: a failed lookup is an Err,
\* which flat_map iterates as nothing
ArtifactFunctions(a) ==
    IF a.status # "ok" THEN <<>>
    ELSE LET fs == AbiFunctions(a)
         IN  [j \in 1..Len(fs) |->
                FunctionSelector(create2_from_code(Bytecode(a)), ContractName(a),
                                 fs[j].name, encode_hex(fs[j].selector))]

RECURSIVE FlatMapArtifacts(_, _)
FlatMapArtifacts(names, k) ==
    IF k > Len(names) THEN <<>>
    ELSE ArtifactFunctions(names[k]) \o FlatMapArtifacts(names, k + 1)

RECURSIVE InsertBySelector(_, _)
InsertBySelector(sorted, e) ==
    IF sorted = <<>> THEN <<e>>
    ELSE IF StrLess(e.selector, Head(sorted).selector) THEN <<e>> \o sorted
    ELSE <<Head(sorted)>> \o InsertBySelector(Tail(sorted), e)

\* sorted_by(|a, b| a.selector.cmp(&b.selector)): a stable sort
RECURSIVE sorted_by_selector(_, _)
sorted_by_selector(s, k) ==
    IF k = 0 THEN <<>>
    ELSE InsertBySelector(sorted_by_selector(s, k - 1), s[k])

\* render_node of utils.rs: every line at 4 + indent, the right child at
\* the indent of its guard
RECURSIVE utils_render_node(_, _)
utils_render_node(node, indent) ==
    IF node.children # <<>>
    THEN LET child_a == node.children[1]
             child_b == node.children[2]
             mid_selector == find_mid_selector(child_b)
         IN  [lines |-> <<GuardLine(4 + indent, mid_selector.selector)>>
                        \o utils_render_node(child_a, indent + 1).lines
                        \o <<CloseLine(4 + indent)>>
                        \o utils_render_node(child_b, indent).lines,
              node |-> [node EXCEPT !.children = Tail(Tail(node.children))]]
    ELSE [lines |-> <<SwitchLine(4 + indent)>>
                    \o [k \in 1..Len(node.selectors) |->
                          CaseLine(4 + indent, node.selectors[k])]
                    \o <<LeaveLine(4 + indent)>>,
          node |-> node]

utils_render_selectors(binary_data) == utils_render_node(binary_data, 0).lines

\* render_modules of utils.rs: one line per element, the contract name as is
utils_render_modules(modules) ==
    [k \in 1..Len(modules) |->
       ModuleLine(modules[k].contract_name, modules[k].address)]

InitRun ==
    /\ module_names \in Modules
    /\ Start("run_collect")

RunCollect ==
    /\ pc = "run_collect"
    /\ selectors' = LET all == FlatMapArtifacts(module_names, 1)
                    IN  sorted_by_selector(all, Len(all))
    /\ pc' = "run_build"
    /\ UNCHANGED <<module_names, idx, functions, combined_abi, interface,
                   router_tree, module_lookup, rendered, result>>

RunBuildTree ==
    /\ pc = "run_build"
    /\ router_tree' = build_binary_data(selectors)
    /\ pc' = "run_modules"
    /\ UNCHANGED <<module_names, idx, functions, combined_abi, selectors,
                   interface, module_lookup, rendered, result>>

RunRenderModules ==
    /\ pc = "run_modules"
    /\ module_lookup' = utils_render_modules(selectors)
    /\ pc' = "run_render"
    /\ UNCHANGED <<module_names, idx, functions, combined_abi, selectors,
                   interface, router_tree, rendered, result>>

RunRenderSelectors ==
    /\ pc = "run_render"
    /\ rendered' = Append(rendered, utils_render_selectors(router_tree))
    /\ router_tree' = NoTree
    /\ pc' = "run_write"
    /\ UNCHANGED <<module_names, idx, functions, combined_abi, selectors,
                   interface, module_lookup, result>>

\* the template's placeholders and fs::write of the router file
RunWrite ==
    /\ pc = "run_write"
    /\ result' = [status |-> "ok",
                  content |-> <<[selectors |-> rendered[Len(rendered)],
                                 interface |-> interface,
                                 modules |-> module_lookup]>>,
                  error |-> NoError]
    /\ pc' = "run_done"
    /\ UNCHANGED <<module_names, idx, functions, combined_abi, selectors,
                   interface, router_tree, module_lookup, rendered>>

NextRun ==
    \/ RunCollect
    \/ RunBuildTree
    \/ RunRenderModules
    \/ RunRenderSelectors
    \/ RunWrite

SpecRun == InitRun /\ [][NextRun]_vars

(***************************************************************************)
(* The tree builder and the renderer on entry sequences of every length.   *)
(***************************************************************************)
Layouts == {"ascending", "descending", "rotated"}

LayoutSelector(layout, n, i) ==
    CASE layout = "ascending" -> i
      [] layout = "descending" -> n + 1 - i
      [] OTHER -> ((i + (n \div 2) - 1) % n) + 1

\* n entries with distinct selectors, owned by two modules in turn
TreeInput(layout, n) ==
    [i \in 1..n |->
       LET a == [group |-> 1 + (i % 2), shape |-> "asc", special |-> "none",
                 status |-> "ok"]
       IN  RouterTemplateInputs(create2_from_code(Bytecode(a)), ContractName(a),
                                FnName(i % 10),
                                encode_hex_with_prefix(LayoutSelector(layout, n, i)))]

InitTree ==
    /\ module_names = <<>>
    /\ \E n \in 0..MaxLen : \E layout \in Layouts :
          selectors = TreeInput(layout, n)
    /\ pc = "tree_build"
    /\ idx = 1
    /\ functions = EmptyMap
    /\ combined_abi = JsonAbiNew
    /\ interface = to_sol(JsonAbiNew)
    /\ router_tree = NoTree
    /\ module_lookup = <<>>
    /\ rendered = <<>>
    /\ result = Pending

TreeBuild ==
    /\ pc = "tree_build"
    /\ router_tree' = build_binary_data(selectors)
    /\ pc' = "tree_render"
    /\ UNCHANGED <<module_names, idx, functions, combined_abi, selectors,
                   interface, module_lookup, rendered, result>>

\* one call of render_node on the tree, through the mutable reference
TreeRenderPass ==
    /\ pc = "tree_render"
    /\ Len(rendered) < MaxPasses
    /\ LET r == render_node(router_tree, BaseIndent)
       IN  /\ rendered' = Append(rendered, r.lines)
           /\ router_tree' = r.node
    /\ UNCHANGED <<module_names, pc, idx, functions, combined_abi, selectors,
                   interface, module_lookup, result>>

NextTree ==
    \/ TreeBuild
    \/ TreeRenderPass

SpecTree == InitTree /\ [][NextTree]_vars

(***************************************************************************)
(* Reading trees and texts.                                                *)
(***************************************************************************)
Range(s) == {s[k] : k \in 1..Len(s)}

RECURSIVE Leaves(_)
RECURSIVE LeavesOf(_, _)
LeavesOf(children, k) ==
    IF k > Len(children) THEN <<>>
    ELSE Leaves(children[k]) \o LeavesOf(children, k + 1)
\* the entries of a tree, left to right
Leaves(node) == node.selectors \o LeavesOf(node.children, 1)

Size(node) == Len(Leaves(node))

RECURSIVE Depth(_)
\* internal nodes on the longest path from the node to a leaf
Depth(node) ==
    IF node.children = <<>> THEN 0
    ELSE LET ds == {Depth(node.children[k]) : k \in 1..Len(node.children)}
         IN  1 + (CHOOSE d \in ds : \A e \in ds : e <= d)

RECURSIVE WellFormed(_)
WellFormed(node) ==
    /\ \/ /\ node.children = <<>>
          /\ Len(node.selectors) <= 9
       \/ /\ Len(node.children) = 2
          /\ node.selectors = <<>>
    /\ \A k \in 1..Len(node.children) : WellFormed(node.children[k])

RECURSIVE CallsShrink(_)
\* every recursive call got a non-empty sequence shorter than its caller's
CallsShrink(node) ==
    \A k \in 1..Len(node.children) :
        /\ 1 <= Size(node.children[k])
        /\ Size(node.children[k]) < Size(node)
        /\ CallsShrink(node.children[k])

\* ceil(log2(n / t)) for n >= 1: the least d with n <= t * 2^d
CeilLog2Ratio(n, t) ==
    LET Reaches(d) == IF d >= 0 THEN n <= t * (2 ^ d) ELSE n * (2 ^ (0 - d)) <= t
    IN  CHOOSE d \in (0 - 5)..12 : Reaches(d) /\ ~Reaches(d - 1)

IsSortedBySelector(s) ==
    \A k \in 1..(Len(s) - 1) : StrLess(s[k].selector, s[k + 1].selector)

\* the index of the "}" that closes the guard whose body starts at p
RECURSIVE MatchClose(_, _, _)
MatchClose(L, p, open) ==
    IF p > Len(L) THEN p
    ELSE IF L[p].kind = "if" THEN MatchClose(L, p + 1, open + 1)
    ELSE IF L[p].kind = "close"
         THEN IF open = 0 THEN p ELSE MatchClose(L, p + 1, open - 1)
    ELSE MatchClose(L, p + 1, open)

\* the constant the text assigns to result for the call selector sig,
\* run from line p on; <<>> when the run ends at a leave without a match
RECURSIVE Dispatch(_, _, _, _)
Dispatch(L, p, sig, in_switch) ==
    IF p > Len(L) THEN <<>>
    ELSE IF in_switch
    THEN IF L[p].kind = "case"
         THEN IF L[p].selector = sig THEN L[p].constant
              ELSE Dispatch(L, p + 1, sig, TRUE)
         ELSE <<>>
    ELSE IF L[p].kind = "if"
    THEN IF StrLess(sig, L[p].selector)
         THEN Dispatch(L, p + 1, sig, FALSE)
         ELSE Dispatch(L, MatchClose(L, p + 1, 0) + 1, sig, FALSE)
    ELSE IF L[p].kind = "switch" THEN Dispatch(L, p + 1, sig, TRUE)
    ELSE <<>>

\* the guards that are open around line p
EnclosingGuards(L, p) ==
    Cardinality({q \in 1..(p - 1) : L[q].kind = "if"})
    - Cardinality({q \in 1..(p - 1) : L[q].kind = "close"})
    - (IF L[p].kind = "close" THEN 1 ELSE 0)

Declares(a, what) ==
    /\ a.status = "ok"
    /\ IF what = "fallback" THEN is_some(AbiFallback(a)) ELSE is_some(AbiReceive(a))

\* j is the first module that declares `what` after an earlier one did
FirstConflict(j, what) ==
    /\ j \in 1..Len(module_names)
    /\ Declares(module_names[j], what)
    /\ \E i \in 1..(j - 1) : Declares(module_names[i], what)
    /\ \A k \in 1..(j - 1) :
          ~(Declares(module_names[k], what)
            /\ \E i \in 1..(k - 1) : Declares(module_names[i], what))

Declarers(what) ==
    {k \in 1..Len(module_names) : Declares(module_names[k], what)}

\* module j repeats a selector collected from the modules before it
RepeatsSelector(j) ==
    /\ module_names[j].status = "ok"
    /\ \E f \in Range(AbiFunctions(module_names[j])) :
          encode_hex_with_prefix(f.selector) \in DOMAIN functions

IsConflictingSpecialFunction(e) ==
    e.msg \in {"Multiple fallback functions found", "Multiple receive functions found"}

\* the functions of the merged ABI, one element per occurrence
MergedFunctions == FlattenMap(SortedKeys(DOMAIN combined_abi.functions), 1,
                              combined_abi.functions)

Occurrences(s, x) == Cardinality({k \in 1..Len(s) : s[k] = x})

TreeBuilt == pc = "tree_render" /\ rendered = <<>>

(***************************************************************************)
(* C1.  Running the rendered dispatch code on the selector of any          *)
(* collected entry ends in the case of that selector and yields the        *)
(* constant of the entry's module.  build_router never sorts the entries   *)
(* it hands to the tree builder, so the guards do not separate them.       *)
(***************************************************************************)
C1_DispatchFindsEveryEntry ==
    result.status = "ok" =>
        \A e \in Range(selectors) :
            Dispatch(result.content[1].selectors, 1, e.selector, FALSE)
                = to_constant_case(e.contract_name)

(***************************************************************************)
(* C2.  The leaves of the built tree, left to right, are the entries in    *)
(* ascending selector order.                                               *)
(***************************************************************************)
C2_LeavesAreEntriesAscending ==
    pc = "modules" =>
        /\ Leaves(router_tree) = sorted_by_selector(selectors, Len(selectors))
        /\ IsSortedBySelector(Leaves(router_tree))

(***************************************************************************)
(* C3.  Every node of a built tree is a leaf with at most 9 entries and    *)
(* no children, or an internal node with 2 children and no entries.        *)
(***************************************************************************)
C3_TreeShape == TreeBuilt => WellFormed(router_tree)

C3_Witness ==
    /\ TreeBuilt
    /\ Depth(router_tree) >= 2
    /\ \E k \in 1..2 : Len(router_tree.children[k].children) = 2

(***************************************************************************)
(* C4.  A repeated selector fails with an error that names both modules,   *)
(* and nothing is built or rendered.  The error of the code carries no     *)
(* module name.                                                            *)
(***************************************************************************)
C4_DuplicateNamesBothModules ==
    (pc = "done" /\ result.error.msg = "Duplicate selector found") =>
        /\ ContractName(module_names[idx]) \in Range(result.error.args)
        /\ \A e \in Range(selectors) :
              (\E f \in Range(AbiFunctions(module_names[idx])) :
                  encode_hex_with_prefix(f.selector) = e.selector)
              => e.contract_name \in Range(result.error.args)
        /\ router_tree = NoTree
        /\ rendered = <<>>
        /\ module_lookup = <<>>
        /\ result.content = <<>>

C6_MergedAbiHasEveryFunction ==
    result.status = "ok" =>
        \A k \in 1..Len(module_names) :
            \A f \in Range(AbiFunctions(module_names[k])) :
                /\ Occurrences(MergedFunctions, f) = 1
                /\ Occurrences(result.content[1].interface.functions, f) = 1

(***************************************************************************)
(* C7.  The module table has one line per distinct module name, in the     *)
(* order in which the names are first seen in the selector-sorted entries. *)
(***************************************************************************)
C7_ModuleTableInSortedFirstSeenOrder ==
    result.status = "ok" =>
        LET sorted == sorted_by_selector(selectors, Len(selectors))
            first_seen == unique_by_contract_name(sorted, 1, {})
        IN  /\ Len(module_lookup) = Cardinality({e.contract_name : e \in Range(selectors)})
            /\ Len(module_lookup) = Len(first_seen)
            /\ \A k \in 1..Len(first_seen) :
                  module_lookup[k].constant
                      = to_constant_case(first_seen[k].contract_name)

(***************************************************************************)
(* C8.  A guard, switch, leave or closing line is indented by the base     *)
(* indent plus the number of guards around it: the left subtree one level  *)
(* deeper than its guard, the right subtree at the level of its guard.     *)
(***************************************************************************)
C8_IndentFollowsGuardDepth ==
    Len(rendered) >= 1 =>
        LET L == rendered[1]
        IN  \A p \in 1..Len(L) :
                L[p].kind # "case" =>
                    L[p].indent = BaseIndent + EnclosingGuards(L, p)

C10_DepthAtMostLogForEveryLength ==
    (TreeBuilt /\ Len(selectors) >= 1) =>
        /\ CallsShrink(router_tree)
        /\ Depth(router_tree)
              <= CeilLog2Ratio(Len(selectors), MAX_SELECTORS_PER_SWITCH_STATEMENT)

(***************************************************************************)
(* C10, amended.  The split index of a sequence of more than 9 entries is  *)
(* ceil(n / 2) with 1 <= mid < n, every recursive call gets a shorter,     *)
(* non-empty sequence, and the depth is at most ceil(log2(n / 9)) when     *)
(* n > 9 and 0 when n <= 9 (where ceil(log2(n / 9)) is negative for        *)
(* n <= 4).                                                                *)
(***************************************************************************)
C10_DepthAtMostLogAboveThreshold ==
    TreeBuilt =>
        LET n == Len(selectors)
        IN  /\ CallsShrink(router_tree)
            /\ n > MAX_SELECTORS_PER_SWITCH_STATEMENT =>
                  /\ 1 <= mid_idx(n)
                  /\ mid_idx(n) < n
                  /\ 2 * mid_idx(n) \in {n, n + 1}
                  /\ Size(router_tree.children[1]) = mid_idx(n)
                  /\ Depth(router_tree)
                        <= CeilLog2Ratio(n, MAX_SELECTORS_PER_SWITCH_STATEMENT)
            /\ n <= MAX_SELECTORS_PER_SWITCH_STATEMENT => Depth(router_tree) = 0

C10_Witness ==
    /\ TreeBuilt
    /\ Len(selectors) > 4 * MAX_SELECTORS_PER_SWITCH_STATEMENT
    /\ Depth(router_tree) = 3

(***************************************************************************)
(* C11.  The module table and the dispatch code agree: the constant of     *)
(* every case line is declared by exactly one line of the module table,    *)
(* entries of modules with different deployment addresses use different    *)
(* constants, and the address declared for a case's constant is the        *)
(* address of the module that owns the case's entry.  render_modules       *)
(* keeps one line per contract name and names the constant by              *)
(* to_constant_case, so two contracts of one name share the first one's    *)
(* address and two names of one constant-case form are declared twice.     *)
(***************************************************************************)
C11_TableAgreesWithDispatch ==
    result.status = "ok" =>
        LET text == result.content[1].selectors
            table == result.content[1].modules
            Declared(c) == {k \in 1..Len(table) : table[k].constant = c}
        IN  /\ \A p \in 1..Len(text) :
                  text[p].kind = "case" =>
                      /\ Cardinality(Declared(text[p].constant)) = 1
                      /\ \A e \in Range(selectors) :
                            e.selector = text[p].selector =>
                                \A k \in Declared(text[p].constant) :
                                    table[k].address = e.address
            /\ \A e1, e2 \in Range(selectors) :
                  e1.address # e2.address =>
                      to_constant_case(e1.contract_name)
                          # to_constant_case(e2.contract_name)

====
